---- MODULE Spec2Model ----
(***************************************************************************)
(* dedup.py: incremental content hashing with a persisted hash cache, a    *)
(* pool of hashing threads fed through a bounded queue, and the removal of *)
(* the duplicates found in one directory.                                  *)
(*                                                                         *)
(* Bytes are one-character strings, byte strings are sequences of them.    *)
(* The in-memory cache is a Python dict: a sequence of entries with unique *)
(* paths, in insertion order.                                              *)
(***************************************************************************)
EXTENDS Integers, Sequences, FiniteSets, TLC

\* ------------------------------------------------------------------ bounds
\* number of hashing threads and queue capacity (os.cpu_count() or 1)
NThreads == 2
\* length of a digest in bytes (16 for md5; the encoding is per byte)
DigestLen == 1
\* number of process invocations modelled in a row
MaxRuns == 2
\* number of file modifications by other programs modelled
MaxTouch == 1

\* ------------------------------------------------------- program constants
\* HEADER = "dedup.py 0.0 md5"
HEADER == <<"d","e","d","u","p",".","p","y"," ","0",".","0"," ","m","d","5">>
\* MAX_CACHE_AGE = datetime.timedelta(hours=1), in seconds
MAX_CACHE_AGE == 3600

NL == "\n"
COLON == ":"

\* ------------------------------------------------------------ byte strings
DecDigits == <<"0","1","2","3","4","5","6","7","8","9">>
HexDigits == <<"0","1","2","3","4","5","6","7","8","9","a","b","c","d","e","f">>

RECURSIVE NatToBytes(_)
NatToBytes(n) ==
    IF n < 10 THEN <<DecDigits[n + 1]>>
    ELSE Append(NatToBytes(n \div 10), DecDigits[(n % 10) + 1])

\* b'%i' % n
IntToBytes(n) == IF n < 0 THEN <<"-">> \o NatToBytes(0 - n) ELSE NatToBytes(n)

DigitValue(c) == (CHOOSE i \in 1..10 : DecDigits[i] = c) - 1

RECURSIVE BytesToNat(_)
BytesToNat(s) ==
    IF Len(s) = 0 THEN 0
    ELSE 10 * BytesToNat(SubSeq(s, 1, Len(s) - 1)) + DigitValue(s[Len(s)])

\* int(line) for the byte strings write_cache produces
BytesToInt(s) ==
    IF Len(s) > 0 /\ s[1] = "-" THEN 0 - BytesToNat(Tail(s)) ELSE BytesToNat(s)

\* binascii.hexlify
RECURSIVE hexlify(_)
hexlify(d) ==
    IF Len(d) = 0 THEN <<>>
    ELSE <<HexDigits[(d[1] \div 16) + 1], HexDigits[(d[1] % 16) + 1]>> \o hexlify(Tail(d))

HexValue(c) == (CHOOSE i \in 1..16 : HexDigits[i] = c) - 1

\* binascii.unhexlify
RECURSIVE unhexlify(_)
unhexlify(s) ==
    IF Len(s) < 2 THEN <<>>
    ELSE <<16 * HexValue(s[1]) + HexValue(s[2])>> \o unhexlify(SubSeq(s, 3, Len(s)))

\* position of the first byte c in s, 0 when there is none
IndexOf(s, c) ==
    IF \E i \in 1..Len(s) : s[i] = c
    THEN CHOOSE i \in 1..Len(s) : s[i] = c /\ \A j \in 1..(i - 1) : s[j] # c
    ELSE 0

\* fp.readline(): the bytes up to and including the first newline
ReadLine(s) == IF IndexOf(s, NL) = 0 THEN s ELSE SubSeq(s, 1, IndexOf(s, NL))
AfterLine(s) == SubSeq(s, Len(ReadLine(s)) + 1, Len(s))

\* line.rstrip(b'\n')
RECURSIVE rstrip(_)
rstrip(s) ==
    IF Len(s) > 0 /\ s[Len(s)] = NL THEN rstrip(SubSeq(s, 1, Len(s) - 1)) ELSE s

\* the bytes of s before the first byte c (all of s when there is none)
Before(s, c) == IF IndexOf(s, c) = 0 THEN s ELSE SubSeq(s, 1, IndexOf(s, c) - 1)
\* the bytes of s after the first byte c (none when there is no c)
After(s, c) == IF IndexOf(s, c) = 0 THEN <<>> ELSE SubSeq(s, IndexOf(s, c) + 1, Len(s))

\* a split on every separator, of which the first three fields are kept
split_all(s) ==
    <<Before(s, COLON), Before(After(s, COLON), COLON),
      Before(After(After(s, COLON), COLON), COLON)>>

\* line.split(b':', 2): at most two splits, the rest is the third field
split2(s) ==
    <<Before(s, COLON), Before(After(s, COLON), COLON), After(After(s, COLON), COLON)>>

\* ------------------------------------------------------------- the dict
DictHas(d, key) == \E i \in 1..Len(d) : d[i].path = key
DictIdx(d, key) == CHOOSE i \in 1..Len(d) : d[i].path = key
DictGet(d, key) == d[DictIdx(d, key)]
\* an assignment that leaves this entry alone in the dict
DictOnly(d, key, mtime, checksum) ==
    <<[path |-> key, mtime |-> mtime, checksum |-> checksum]>>

\* d[key] = (mtime, checksum): an existing key keeps its position
DictSet(d, key, mtime, checksum) ==
    LET e == [path |-> key, mtime |-> mtime, checksum |-> checksum]
    IN  IF DictHas(d, key) THEN [d EXCEPT ![DictIdx(d, key)] = e] ELSE Append(d, e)
\* del d[key]
DictDel(d, key) ==
    LET i == DictIdx(d, key)
    IN  SubSeq(d, 1, i - 1) \o SubSeq(d, i + 1, Len(d))
DictKeys(d) == {d[i].path : i \in 1..Len(d)}

\* --------------------------------------------------------- the cache file
\* write_cache: header, timestamp, one line per entry
EntryLine(e) ==
    IntToBytes(e.mtime) \o <<COLON>> \o hexlify(e.checksum) \o <<COLON>> \o e.path \o <<NL>>

RECURSIVE EntryLines(_)
EntryLines(d) == IF Len(d) = 0 THEN <<>> ELSE EntryLine(d[1]) \o EntryLines(Tail(d))

CacheFileBytes(d, ts) == HEADER \o <<NL>> \o IntToBytes(ts) \o <<NL>> \o EntryLines(d)

\* read_cache: the header line, the timestamp line, then the entries
HeaderOk(bytes) == ReadLine(bytes) = HEADER \o <<NL>>
FileTimestamp(bytes) == BytesToInt(rstrip(ReadLine(AfterLine(bytes))))

ParseLine(line) ==
    LET f == split2(rstrip(line))
    IN  [path |-> f[3], mtime |-> BytesToInt(f[1]), checksum |-> unhexlify(f[2])]

IsDigits(s) == \A i \in 1..Len(s) : \E k \in 1..10 : DecDigits[k] = s[i]
\* int(s) does not raise ValueError
IsInt(s) == IF Len(s) > 0 /\ s[1] = "-" THEN Len(s) > 1 /\ IsDigits(Tail(s))
            ELSE Len(s) > 0 /\ IsDigits(s)
\* binascii.unhexlify(s) does not raise binascii.Error
IsHex(s) == Len(s) % 2 = 0 /\ \A i \in 1..Len(s) : \E k \in 1..16 : HexDigits[k] = s[i]
\* the line unpacks into three fields that convert
LineOk(line) ==
    /\ Cardinality({i \in 1..Len(rstrip(line)) : rstrip(line)[i] = COLON}) >= 2
    /\ IsInt(split2(rstrip(line))[1])
    /\ IsHex(split2(rstrip(line))[2])

RECURSIVE LinesOk(_)
LinesOk(bytes) == Len(bytes) = 0 \/ (LineOk(ReadLine(bytes)) /\ LinesOk(AfterLine(bytes)))

\* no statement of read_cache raises an exception on these bytes
Parses(bytes) ==
    /\ IsInt(rstrip(ReadLine(AfterLine(bytes))))
    /\ LinesOk(AfterLine(AfterLine(bytes)))

RECURSIVE ParseEntries(_, _)
ParseEntries(bytes, d) ==
    IF Len(bytes) = 0 THEN d
    ELSE LET e == ParseLine(ReadLine(bytes))
         IN  ParseEntries(AfterLine(bytes), DictSet(d, e.path, e.mtime, e.checksum))

FileEntries(bytes) == ParseEntries(AfterLine(AfterLine(bytes)), <<>>)

\* ------------------------------------------------------------ the files
dT == <<"/", "T">>
dE == <<"/", "E">>
\* a directory inside /T
dTs == <<"/", "T", "/", "s">>
\* a symbolic link to /T
dL == <<"/", "L">>
pTa == <<"/", "T", "/", "a">>
pTb == <<"/", "T", "/", "b">>
pTs == <<"/", "T", "/", "s", "/", "f">>
pEx == <<"/", "E", "/", "x">>
pEc == <<"/", "E", "/", "y", ":", "z">>
pEn == <<"/", "E", "/", "z", "\n">>
\* self.cache_filename, inside /E
cache_filename == <<"/", "E", "/", "c">>

\* the order in which os.walk lists them
AllFiles == <<pTa, pTb, pTs, pEn, pEx, pEc>>
Paths == {AllFiles[i] : i \in 1..Len(AllFiles)}

LastSlash(p) == CHOOSE i \in 0..Len(p) :
    /\ (i = 0 \/ p[i] = "/")
    /\ \A j \in (i + 1)..Len(p) : p[j] # "/"
\* the first directory of the path
topdir(p) == SubSeq(p, 1, 2)

\* os.path.dirname
dirname(p) == IF LastSlash(p) <= 1 THEN SubSeq(p, 1, LastSlash(p))
              ELSE SubSeq(p, 1, LastSlash(p) - 1)
\* whether directory d is an ancestor of path p
Under(d, p) == Len(p) > Len(d) /\ SubSeq(p, 1, Len(d)) = d /\ p[Len(d) + 1] = "/"

\* hashlib.md5 of a content: distinct contents have distinct digests
md5(c) == [i \in 1..DigestLen |-> (c * 26 + i) % 256]

\* ------------------------------------------------------------- the state
VARIABLES
    pc,         \* where the main thread is
    args,       \* the parsed command line: action, remove, directory
    run,        \* the number of this invocation
    now,        \* cache_now(), in seconds
    fs,         \* the files: path -> [exists, regular, content, mtime, readable]
    dirs,       \* the directories that exist
    cachefile,  \* the cache file: [exists, bytes]
    cache,      \* self.cache
    queue,      \* self.queue
    threads,    \* self.threads: thread -> [pc, job]
    todo,       \* the paths scan() has still to visit
    job,        \* the job scan_file is putting
    content,    \* remove_dir: the entries of the directory
    byhash,     \* remove_dir: checksum -> the paths elsewhere
    nremoved,   \* remove_dir: the count it prints
    nput,       \* stop_threads: the sentinels put so far
    exc,        \* the exception propagating through main()
    status,     \* the exit status of the process
    sigint,     \* whether CTRL+c was pressed during this invocation
    ntouch,     \* the file modifications made so far
    submitted,  \* history: the jobs put in the queue by this invocation
    taken,      \* history: job id -> how many times a thread got it
    rehashed,   \* history: the copies remove_dir hashed, with the result
    unlinked,   \* history: the files remove_dir unlinked
    loaded,     \* history: the cache as read_cache left it
    written,    \* history: what write_cache wrote in this invocation
    hashed,     \* history: the paths whose callback ran in this invocation
    dirty,      \* history: whether a file was modified since this invocation began
    prev        \* history: how the previous invocation ended

vars == <<pc, args, run, now, fs, dirs, cachefile, cache, queue, threads, todo, job,
          content, byhash, nremoved, nput, exc, status, sigint, ntouch,
          submitted, taken, rehashed, unlinked, loaded, written, hashed, dirty, prev>>

mainvars == <<pc, todo, job, content, byhash, nremoved, nput, exc, status>>
histvars == <<submitted, taken, rehashed, unlinked, loaded, written, hashed, dirty, prev>>
envvars == <<args, run, now, sigint, ntouch>>

\* the queue's sentinel
None == [id |-> 0, path |-> <<>>, mtime |-> 0]
Absent == [exists |-> FALSE, bytes |-> <<>>]
NotWritten == [done |-> FALSE, cache |-> <<>>, ts |-> 0]
NoPrev == [args |-> [action |-> "none"], written |-> NotWritten, hashed |-> {},
           dirty |-> FALSE, sigint |-> FALSE]

Threads == 1..NThreads
Running(t) == t.pc \in {"get", "hash"}

\* hash_file: the digest of the file's content now; IOError when it cannot be read
CanRead(path) == path \in DOMAIN fs /\ fs[path].exists /\ fs[path].readable
hash_file(path) == md5(fs[path].content)

\* self.real_path: os.path.realpath resolves the symbolic link /L
real_path(path) ==
    IF Len(path) >= Len(dL) /\ SubSeq(path, 1, Len(dL)) = dL
       /\ (Len(path) = Len(dL) \/ path[Len(dL) + 1] = "/")
    THEN dT \o SubSeq(path, Len(dL) + 1, Len(path))
    ELSE path

\* os.path.join(rootdir, filename) of os.walk(d): the name under d of file f
Joined(d, f) == d \o SubSeq(f, Len(real_path(d)) + 1, Len(f))

\* os.walk under d: the names of the files that exist below it
RECURSIVE SelectUnder(_, _)
SelectUnder(d, files) ==
    IF Len(files) = 0 THEN <<>>
    ELSE (IF Under(real_path(d), files[1]) /\ fs[files[1]].exists
          THEN <<Joined(d, files[1])>> ELSE <<>>)
         \o SelectUnder(d, Tail(files))

\* the cache file is one of the files below d
CacheFileUnder(d) ==
    IF cachefile.exists /\ Under(real_path(d), cache_filename)
    THEN <<Joined(d, cache_filename)>> ELSE <<>>

\* scan: os.walk under each directory of the list, in turn
RECURSIVE Walk(_)
Walk(directories) ==
    IF Len(directories) = 0 THEN <<>>
    ELSE SelectUnder(directories[1], AllFiles) \o CacheFileUnder(directories[1])
         \o Walk(Tail(directories))

\* the command lines
RootLists == {<<dT, dE>>}
ArgsChoices ==
    {[action |-> "scan", remove |-> FALSE, directory |-> r] : r \in RootLists}
    \cup {[action |-> "remove_dir", remove |-> b, directory |-> dT] : b \in BOOLEAN}

\* the bytes of the files at the start: /T/a and /E/x hold the same bytes, and
\* so do /T/b and /E/y:z
InitContent ==
    (pTa :> 1) @@ (pTb :> 2) @@ (pEx :> 1) @@ (pEc :> 2) @@ (pEn :> 1) @@ (pTs :> 1)
\* or /T/a has two copies elsewhere and /T/b none
TwoCopies ==
    (pTa :> 1) @@ (pTb :> 2) @@ (pEx :> 1) @@ (pEc :> 1) @@ (pEn :> 1) @@ (pTs :> 1)

\* the first k files of /T and /E cannot be read
Unreadable(k) == {(<<pTa, pTb, pEx, pEc>>)[i] : i \in 1..k}
\* the files present (those of `more` besides the four that always are), the
\* named pipes among them, and the files that cannot be read
FsOf(bytes, more, pipes, k) ==
    [p \in Paths |->
        [exists |-> (p \in {pTa, pTb, pEx, pEc} \cup more),
         regular |-> p \notin pipes,
         content |-> bytes[p], mtime |-> 1,
         readable |-> p \notin Unreadable(k)]]
\* the file with a newline in its name exists or not; /E/x is a named pipe
\* another program writes to
InitFs ==
    {FsOf(InitContent, more, {}, k) : more \in {{}, {pEn}}, k \in 0..NThreads}
    \cup {FsOf(TwoCopies, {}, {}, 0), FsOf(InitContent, {}, {pEx}, 0)}

Init ==
    /\ pc = "read_cache"
    /\ args \in ArgsChoices
    /\ run = 1
    /\ now = 0
    /\ fs \in InitFs
    /\ dirs = {dT, dE}
    /\ cachefile = Absent
    /\ cache = <<>>
    /\ queue = <<>>
    /\ threads = [t \in Threads |-> [pc |-> "new", job |-> None]]
    /\ todo = <<>>
    /\ job = None
    /\ content = <<>>
    /\ byhash = <<>>
    /\ nremoved = 0
    /\ nput = 0
    /\ exc = "none"
    /\ status = -1
    /\ sigint = FALSE
    /\ ntouch = 0
    /\ submitted = <<>>
    /\ taken = <<>>
    /\ rehashed = {}
    /\ unlinked = {}
    /\ loaded = <<>>
    /\ written = NotWritten
    /\ hashed = {}
    /\ dirty = FALSE
    /\ prev = NoPrev

\* ------------------------------------------------------ the main thread
\* the answers to "Use old cache yes/no?" that end the prompt
Answers == {"yes", "no", ""}

\* check_cache_age: whether the cache is older than MAX_CACHE_AGE
TooOld(ts) == ~(now - ts < MAX_CACHE_AGE)

\* read_cache (with check_cache_age and its prompt)
read_cache ==
    /\ pc = "read_cache"
    /\ IF ~cachefile.exists
       THEN /\ pc' = "start_threads"
            /\ UNCHANGED <<cache, cachefile, status, loaded>>
       ELSE IF ~HeaderOk(cachefile.bytes) \/ ~Parses(cachefile.bytes)
       THEN /\ pc' = "exit"
            /\ status' = 1
            /\ UNCHANGED <<cache, cachefile, loaded>>
       ELSE \E answer \in Answers :
            IF ~TooOld(FileTimestamp(cachefile.bytes)) \/ answer = "yes"
            THEN /\ cache' = FileEntries(cachefile.bytes)
                 /\ loaded' = cache'
                 /\ pc' = "start_threads"
                 /\ UNCHANGED <<cachefile, status>>
            ELSE IF answer = "no"
            THEN /\ cachefile' = Absent
                 /\ pc' = "start_threads"
                 /\ UNCHANGED <<cache, status, loaded>>
            ELSE /\ pc' = "exit"
                 /\ status' = 0
                 /\ UNCHANGED <<cache, cachefile, loaded>>
    /\ UNCHANGED <<fs, dirs, queue, threads, todo, job, content, byhash, nremoved, nput, exc>>
    /\ UNCHANGED <<submitted, taken, rehashed, unlinked, written, hashed, dirty, prev>>
    /\ UNCHANGED envvars

\* start_threads: the queue of capacity nthread and the threads
start_threads ==
    /\ pc = "start_threads"
    /\ queue' = <<>>
    /\ threads' = [t \in Threads |-> [pc |-> "get", job |-> None]]
    /\ pc' = IF args.action = "scan" THEN "scan" ELSE "remove_dir"
    /\ UNCHANGED <<fs, dirs, cachefile, cache, todo, job, content, byhash, nremoved, nput,
                   exc, status>>
    /\ UNCHANGED histvars
    /\ UNCHANGED envvars

\* scan: the walk of the directories
scan ==
    /\ pc = "scan"
    /\ todo' = Walk(args.directory)
    /\ pc' = "scan_file"
    /\ UNCHANGED <<fs, dirs, cachefile, cache, queue, threads, job, content, byhash,
                   nremoved, nput, exc, status>>
    /\ UNCHANGED histvars
    /\ UNCHANGED envvars

\* a comparison that takes an entry as old as the file for outdated
CacheHitNewer(d, path, mtime) == DictHas(d, path) /\ DictGet(d, path).mtime > mtime

\* scan_file, line 183: the cached checksum is used
CacheHit(d, path, mtime) == DictHas(d, path) /\ DictGet(d, path).mtime >= mtime

\* a stat that reports a later time than the file's
st_mtime_late(path) == fs[path].mtime + 1

\* scan_file, lines 178-179: os.stat(path).st_mtime_ns
st_mtime_ns(path) == fs[path].mtime

\* scan_file up to queue.put: skip the file, fail, or make the job; a path that
\* is not a regular file gets a warning (lines 175-176) and is handled as the
\* others are
scan_file ==
    /\ pc = "scan_file"
    /\ todo # <<>>
    /\ LET path == real_path(Head(todo))
       IN  IF path = cache_filename
           THEN /\ todo' = Tail(todo)
                /\ UNCHANGED <<pc, job, exc>>
           ELSE IF \E i \in 1..Len(path) : path[i] = NL
           THEN /\ exc' = "ValueError"
                /\ pc' = "stop_put"
                /\ UNCHANGED <<todo, job>>
           ELSE IF ~fs[path].exists
           THEN /\ exc' = "OSError"
                /\ pc' = "stop_put"
                /\ UNCHANGED <<todo, job>>
           ELSE IF CacheHit(cache, path, st_mtime_ns(path))
           THEN /\ todo' = Tail(todo)
                /\ UNCHANGED <<pc, job, exc>>
           ELSE /\ job' = [id |-> Len(submitted) + 1, path |-> path,
                            mtime |-> st_mtime_ns(path)]
                /\ pc' = "put"
                /\ UNCHANGED <<todo, exc>>
    /\ UNCHANGED <<fs, dirs, cachefile, cache, queue, threads, content, byhash, nremoved,
                   nput, status>>
    /\ UNCHANGED histvars
    /\ UNCHANGED envvars

\* scan_file, line 197: queue.put(job) blocks while the queue is full
put ==
    /\ pc = "put"
    /\ Len(queue) < NThreads
    /\ queue' = Append(queue, job)
    /\ submitted' = Append(submitted, job)
    /\ job' = None
    /\ todo' = Tail(todo)
    /\ pc' = "scan_file"
    /\ UNCHANGED <<fs, dirs, cachefile, cache, threads, content, byhash, nremoved, nput,
                   exc, status>>
    /\ UNCHANGED <<taken, rehashed, unlinked, loaded, written, hashed, dirty, prev>>
    /\ UNCHANGED envvars

\* scan returns: main goes on to its finally clause
scan_end ==
    /\ pc = "scan_file"
    /\ todo = <<>>
    /\ pc' = "stop_put"
    /\ UNCHANGED <<fs, dirs, cachefile, cache, queue, threads, todo, job, content, byhash,
                   nremoved, nput, exc, status>>
    /\ UNCHANGED histvars
    /\ UNCHANGED envvars

\* remove_dir, lines 239-244: the entries of the directory, in the dict's order
RECURSIVE DirContent(_, _)
DirContent(d, directory) ==
    IF Len(d) = 0 THEN <<>>
    ELSE (IF dirname(d[1].path) = directory
          THEN <<[path |-> d[1].path, checksum |-> d[1].checksum]>> ELSE <<>>)
         \o DirContent(Tail(d), directory)

\* remove_dir, lines 239-244: the other paths with this checksum, in the dict's order
RECURSIVE Elsewhere(_, _, _)
Elsewhere(d, directory, checksum) ==
    IF Len(d) = 0 THEN <<>>
    ELSE (IF dirname(d[1].path) # directory /\ d[1].checksum = checksum
          THEN <<d[1].path>> ELSE <<>>)
         \o Elsewhere(Tail(d), directory, checksum)

ByHash(d, directory) ==
    [c \in {d[i].checksum : i \in {j \in 1..Len(d) : dirname(d[j].path) # directory}}
        |-> Elsewhere(d, directory, c)]

\* byhash[checksum] of a defaultdict(list)
Files(checksum) == IF checksum \in DOMAIN byhash THEN byhash[checksum] ELSE <<>>

\* remove_dir, lines 231-244
remove_dir ==
    /\ pc = "remove_dir"
    /\ nremoved' = 0
    /\ content' = DirContent(cache, real_path(args.directory))
    /\ byhash' = ByHash(cache, real_path(args.directory))
    /\ pc' = "remove_loop"
    /\ UNCHANGED <<fs, dirs, cachefile, cache, queue, threads, todo, job, nput, exc, status>>
    /\ UNCHANGED histvars
    /\ UNCHANGED envvars

\* a removal that does not wait for the option
remove_unasked == TRUE

\* remove_dir, line 232: remove = self.args.remove
remove == args.remove

\* remove_dir, line 250: the copy whose checksum is checked
TheCopy(files) == files[1]

\* a check that takes the cached checksum of the copy for its live one
Trusting(copy_checksum, checksum) == FALSE

\* remove_dir, line 253: the cache is outdated
Outdated(copy_checksum, checksum) == copy_checksum # checksum

\* remove_dir, lines 246-270: one turn of the loop
remove_entry ==
    /\ pc = "remove_loop"
    /\ content # <<>>
    /\ LET filename == Head(content).path
           checksum == Head(content).checksum
           files == Files(checksum)
           copy == TheCopy(files)
       IN  IF files = <<>>
           THEN /\ content' = Tail(content)
                /\ UNCHANGED <<pc, exc, nremoved, cache, fs, rehashed, unlinked>>
           ELSE IF ~CanRead(copy)
           THEN /\ exc' = "OSError"
                /\ pc' = "stop_put"
                /\ UNCHANGED <<content, nremoved, cache, fs, rehashed, unlinked>>
           ELSE /\ rehashed' = rehashed \cup
                        {[target |-> filename, copy |-> copy, result |-> hash_file(copy)]}
                /\ IF Outdated(hash_file(copy), checksum)
                   THEN /\ exc' = "SystemExit"
                        /\ pc' = "stop_put"
                        /\ UNCHANGED <<content, nremoved, cache, fs, unlinked>>
                   ELSE /\ nremoved' = nremoved + 1
                        /\ content' = Tail(content)
                        /\ UNCHANGED <<pc, exc>>
                        /\ IF remove
                           THEN /\ cache' = DictDel(cache, filename)
                                /\ IF filename \in DOMAIN fs /\ fs[filename].exists
                                   THEN /\ fs' = [fs EXCEPT ![filename].exists = FALSE]
                                        /\ unlinked' = unlinked \cup {filename}
                                   ELSE UNCHANGED <<fs, unlinked>>
                           ELSE UNCHANGED <<cache, fs, unlinked>>
    /\ UNCHANGED <<dirs, cachefile, queue, threads, todo, job, byhash, nput, status>>
    /\ UNCHANGED <<submitted, taken, loaded, written, hashed, dirty, prev>>
    /\ UNCHANGED envvars

\* os.rmdir succeeds on an existing, empty directory
CanRmdir(directory) ==
    /\ directory \in dirs
    /\ \A d \in dirs : ~Under(directory, d)
    /\ \A p \in DOMAIN fs : ~(fs[p].exists /\ Under(directory, p))

\* remove_dir, lines 273-287: after the loop
remove_end ==
    /\ pc = "remove_loop"
    /\ content = <<>>
    /\ dirs' = IF remove /\ CanRmdir(real_path(args.directory))
               THEN dirs \ {real_path(args.directory)} ELSE dirs
    /\ pc' = "stop_put"
    /\ UNCHANGED <<fs, cachefile, cache, queue, threads, todo, job, content, byhash,
                   nremoved, nput, exc, status>>
    /\ UNCHANGED histvars
    /\ UNCHANGED envvars

\* stop_threads, lines 225-226: one sentinel for each thread
stop_put ==
    /\ pc = "stop_put"
    /\ Len(queue) < NThreads
    /\ queue' = Append(queue, None)
    /\ nput' = nput + 1
    /\ pc' = IF nput + 1 = NThreads THEN "stop_join" ELSE "stop_put"
    /\ UNCHANGED <<fs, dirs, cachefile, cache, threads, todo, job, content, byhash,
                   nremoved, exc, status>>
    /\ UNCHANGED histvars
    /\ UNCHANGED envvars

\* stop_threads, lines 227-228, and what main does next: write_cache, unless an
\* exception other than KeyboardInterrupt is propagating
stop_join ==
    /\ pc = "stop_join"
    /\ \A t \in Threads : ~Running(threads[t])
    /\ IF exc = "none"
       THEN pc' = "write_cache" /\ UNCHANGED status
       ELSE pc' = "exit" /\ status' = 1
    /\ UNCHANGED <<fs, dirs, cachefile, cache, queue, threads, todo, job, content, byhash,
                   nremoved, nput, exc>>
    /\ UNCHANGED histvars
    /\ UNCHANGED envvars

\* write_cache
write_cache ==
    /\ pc = "write_cache"
    /\ IF cache = <<>>
       THEN UNCHANGED <<cachefile, written>>
       ELSE /\ cachefile' = [exists |-> TRUE, bytes |-> CacheFileBytes(cache, now)]
            /\ written' = [done |-> TRUE, cache |-> cache, ts |-> now]
    /\ pc' = "exit"
    /\ status' = 0
    /\ UNCHANGED <<fs, dirs, cache, queue, threads, todo, job, content, byhash, nremoved,
                   nput, exc>>
    /\ UNCHANGED <<submitted, taken, rehashed, unlinked, loaded, hashed, dirty, prev>>
    /\ UNCHANGED envvars

\* ----------------------------------------------------- the hashing threads
Took(id) == IF id \in DOMAIN taken THEN taken[id] ELSE 0

\* HashThread.run, lines 49-52: get a job; the sentinel ends the thread
thread_get(t) ==
    /\ threads[t].pc = "get"
    /\ queue # <<>>
    /\ queue' = Tail(queue)
    /\ IF Head(queue) = None
       THEN /\ threads' = [threads EXCEPT ![t].pc = "exited"]
            /\ UNCHANGED taken
       ELSE /\ threads' = [threads EXCEPT ![t] = [pc |-> "hash", job |-> Head(queue)]]
            /\ taken' = [id \in DOMAIN taken \cup {Head(queue).id} |->
                            IF id = Head(queue).id THEN Took(id) + 1 ELSE taken[id]]
    /\ UNCHANGED <<fs, dirs, cachefile, cache>>
    /\ UNCHANGED mainvars
    /\ UNCHANGED <<submitted, rehashed, unlinked, loaded, written, hashed, dirty, prev>>
    /\ UNCHANGED envvars

\* a callback that records the modification time the file has by now
write_checksum_now(d, j, checksum) == DictSet(d, j.path, fs[j.path].mtime, checksum)

\* scan_file, lines 187-188: the callback of the job, with the mtime of the stat
write_checksum(d, j, checksum) == DictSet(d, j.path, j.mtime, checksum)

\* HashThread.run, lines 53-54: hash the file and call write_checksum; an
\* exception of hash_file is not caught and ends the thread
thread_hash(t) ==
    /\ threads[t].pc = "hash"
    /\ LET j == threads[t].job
       IN  IF CanRead(j.path)
           THEN /\ cache' = write_checksum(cache, j, hash_file(j.path))
                /\ hashed' = hashed \cup {j.path}
                /\ threads' = [threads EXCEPT ![t] = [pc |-> "get", job |-> None]]
           ELSE /\ threads' = [threads EXCEPT ![t].pc = "dead"]
                /\ UNCHANGED <<cache, hashed>>
    /\ UNCHANGED <<fs, dirs, cachefile, queue>>
    /\ UNCHANGED mainvars
    /\ UNCHANGED <<submitted, taken, rehashed, unlinked, loaded, written, dirty, prev>>
    /\ UNCHANGED envvars

\* ---------------------------------------------------------- the environment
\* the files other programs modify
Touched == {pTa, pEc}

\* another program rewrites a file: new bytes, later modification time
touch(p) ==
    /\ ntouch < MaxTouch
    /\ fs[p].exists
    /\ fs' = [fs EXCEPT ![p].content = @ + 2, ![p].mtime = @ + 1]
    /\ ntouch' = ntouch + 1
    /\ dirty' = TRUE
    /\ UNCHANGED <<dirs, cachefile, cache, queue, threads>>
    /\ UNCHANGED mainvars
    /\ UNCHANGED <<submitted, taken, rehashed, unlinked, loaded, written, hashed, prev>>
    /\ UNCHANGED <<args, run, now, sigint>>

\* main, lines 311-320: the places where KeyboardInterrupt is caught
InTry == pc \in {"scan", "scan_file", "put", "remove_dir", "remove_loop"}
\* main, lines 310 and 320: start_threads and the finally clause, where it is not
Uncaught == pc \in {"start_threads", "stop_put", "stop_join"}

\* CTRL+c: KeyboardInterrupt is raised in the main thread, once in an
\* invocation, between read_cache and write_cache
interrupt ==
    /\ ~sigint
    /\ InTry \/ Uncaught
    /\ sigint' = TRUE
    /\ IF InTry
       THEN /\ pc' = "stop_put"
            /\ job' = None
            /\ UNCHANGED <<exc, status>>
       ELSE /\ pc' = "exit"
            /\ exc' = "KeyboardInterrupt"
            /\ status' = 1
            /\ UNCHANGED job
    /\ UNCHANGED <<fs, dirs, cachefile, cache, queue, threads, todo, content, byhash,
                   nremoved, nput>>
    /\ UNCHANGED histvars
    /\ UNCHANGED <<args, run, now, ntouch>>

\* the process has ended (the interpreter waits for the threads that run), and
\* the program is run again, after one of these delays, with one of these
\* command lines
restart(delays, commands) ==
    /\ pc = "exit"
    /\ \A t \in Threads : ~Running(threads[t])
    /\ run < MaxRuns
    /\ run' = run + 1
    /\ now' \in {now + d : d \in delays}
    /\ args' \in commands
    /\ prev' = [args |-> args, written |-> written, hashed |-> hashed, dirty |-> dirty,
                sigint |-> sigint]
    /\ pc' = "read_cache"
    /\ cache' = <<>>
    /\ queue' = <<>>
    /\ threads' = [t \in Threads |-> [pc |-> "new", job |-> None]]
    /\ todo' = <<>>
    /\ job' = None
    /\ content' = <<>>
    /\ byhash' = <<>>
    /\ nremoved' = 0
    /\ nput' = 0
    /\ exc' = "none"
    /\ status' = -1
    /\ sigint' = FALSE
    /\ submitted' = <<>>
    /\ taken' = <<>>
    /\ rehashed' = {}
    /\ unlinked' = {}
    /\ loaded' = <<>>
    /\ written' = NotWritten
    /\ hashed' = {}
    /\ dirty' = FALSE
    /\ UNCHANGED <<fs, dirs, cachefile, ntouch>>

Main ==
    \/ read_cache
    \/ start_threads
    \/ scan
    \/ scan_file
    \/ put
    \/ scan_end
    \/ remove_dir
    \/ remove_entry
    \/ remove_end
    \/ stop_put
    \/ stop_join
    \/ write_cache

Next ==
    \/ Main
    \/ \E t \in Threads : thread_get(t)
    \/ \E t \in Threads : thread_hash(t)
    \/ \E p \in Touched : touch(p)
    \/ interrupt
    \/ restart({0}, ArgsChoices)

Spec == Init /\ [][Next]_vars

\* ------------------------------------- scans of files nobody modifies
InitScan == Init /\ args.action = "scan"

NextScan ==
    \/ read_cache
    \/ start_threads
    \/ scan
    \/ scan_file
    \/ put
    \/ scan_end
    \/ stop_put
    \/ stop_join
    \/ write_cache
    \/ \E t \in Threads : thread_get(t)
    \/ \E t \in Threads : thread_hash(t)
    \/ restart({0}, {args})

SpecScan == InitScan /\ [][NextScan]_vars

\* ------------------------------------- removal with a cache left by a scan
\* the files a scan hashed, in the orders the threads may complete them
Orders == {<<pTa, pTb, pTs, pEx, pEc>>, <<pEc, pTb, pEx, pTs, pTa>>}
\* the cache a scan leaves when the files hold these bytes
ScannedCache(order, bytes) ==
    [i \in 1..Len(order) |->
        [path |-> order[i], mtime |-> 1, checksum |-> md5(bytes[order[i]])]]
\* the files: one of them may have been deleted since the scan
RemoveFs ==
    {[p \in Paths |->
        [exists |-> (p # pEn /\ p # gone), regular |-> TRUE, content |-> bytes[p],
         mtime |-> 1, readable |-> TRUE]]
     : bytes \in [Paths -> {1, 2}], gone \in {pEn, pTa, pEx}}

InitRemove ==
    /\ pc = "read_cache"
    /\ args \in {a \in ArgsChoices : a.action = "remove_dir"}
    /\ run = 1
    /\ now = 0
    /\ fs \in {f \in RemoveFs : f[pEn].content = 1}
    /\ dirs = {dT, dE, dTs}
    /\ \E order \in Orders :
          cachefile = [exists |-> TRUE,
                       bytes |-> CacheFileBytes(
                           ScannedCache(order, [p \in Paths |-> fs[p].content]), now)]
    /\ cache = <<>>
    /\ queue = <<>>
    /\ threads = [t \in Threads |-> [pc |-> "new", job |-> None]]
    /\ todo = <<>>
    /\ job = None
    /\ content = <<>>
    /\ byhash = <<>>
    /\ nremoved = 0
    /\ nput = 0
    /\ exc = "none"
    /\ status = -1
    /\ sigint = FALSE
    /\ ntouch = 0
    /\ submitted = <<>>
    /\ taken = <<>>
    /\ rehashed = {}
    /\ unlinked = {}
    /\ loaded = <<>>
    /\ written = NotWritten
    /\ hashed = {}
    /\ dirty = FALSE
    /\ prev = NoPrev

NextRemove ==
    \/ read_cache
    \/ start_threads
    \/ remove_dir
    \/ remove_entry
    \/ remove_end
    \/ stop_put
    \/ stop_join
    \/ write_cache
    \/ \E t \in Threads : thread_get(t)
    \/ \E p \in Touched : touch(p)
    \/ interrupt

SpecRemove == InitRemove /\ [][NextRemove]_vars

\* ------------------------------------------- the cache file on its own
\* the caches written: up to MaxEntries entries with these paths, modification
\* times and checksums
MaxEntries == 2
RTPaths == {pTa, pEc, pEn, <<":", "a", ":">>}
RTMtimes == {-1, 120}
RTChecksums == {md5(1), [i \in 1..DigestLen |-> 255]}
RTEntries == [path : RTPaths, mtime : RTMtimes, checksum : RTChecksums]
RTCaches ==
    {d \in UNION {[1..n -> RTEntries] : n \in 1..MaxEntries} :
        \A i, j \in 1..Len(d) : i # j => d[i].path # d[j].path}

InitRT ==
    /\ pc = "write_cache"
    /\ args \in {a \in ArgsChoices : a.action = "scan"}
    /\ run = 1
    /\ now = 0
    /\ fs \in {f \in InitFs : ~f[pEn].exists /\ \A p \in Paths : f[p].readable}
    /\ dirs = {dT, dE}
    /\ cachefile = Absent
    /\ cache \in RTCaches
    /\ queue = <<>>
    /\ threads = [t \in Threads |-> [pc |-> "exited", job |-> None]]
    /\ todo = <<>>
    /\ job = None
    /\ content = <<>>
    /\ byhash = <<>>
    /\ nremoved = 0
    /\ nput = NThreads
    /\ exc = "none"
    /\ status = -1
    /\ sigint = FALSE
    /\ ntouch = 0
    /\ submitted = <<>>
    /\ taken = <<>>
    /\ rehashed = {}
    /\ unlinked = {}
    /\ loaded = <<>>
    /\ written = NotWritten
    /\ hashed = {}
    /\ dirty = FALSE
    /\ prev = NoPrev

NextRT ==
    \/ write_cache
    \/ restart({0, MAX_CACHE_AGE}, {args})
    \/ read_cache

SpecRT == InitRT /\ [][NextRT]_vars

\* ------------------------------------------------ scans of other inputs
\* the first invocation, with no cache file: one of these command lines, file
\* systems and sets of directories
InitWith(commands, filesystems, directories) ==
    /\ pc = "read_cache"
    /\ args \in commands
    /\ run = 1
    /\ now = 0
    /\ fs \in filesystems
    /\ dirs = directories
    /\ cachefile = Absent
    /\ cache = <<>>
    /\ queue = <<>>
    /\ threads = [t \in Threads |-> [pc |-> "new", job |-> None]]
    /\ todo = <<>>
    /\ job = None
    /\ content = <<>>
    /\ byhash = <<>>
    /\ nremoved = 0
    /\ nput = 0
    /\ exc = "none"
    /\ status = -1
    /\ sigint = FALSE
    /\ ntouch = 0
    /\ submitted = <<>>
    /\ taken = <<>>
    /\ rehashed = {}
    /\ unlinked = {}
    /\ loaded = <<>>
    /\ written = NotWritten
    /\ hashed = {}
    /\ dirty = FALSE
    /\ prev = NoPrev

\* scan's directory list: two directories, one directory twice, a directory and
\* a symbolic link to it, a directory and one inside it
DirectoryLists == {<<dT, dE>>, <<dT, dT>>, <<dL, dT>>, <<dT, dTs>>}

\* /T/s/f exists, and up to k files cannot be read
RootsFs == {FsOf(InitContent, {pTs}, {}, k) : k \in 0..1}

InitRoots ==
    InitWith({[action |-> "scan", remove |-> FALSE, directory |-> r] : r \in DirectoryLists},
             RootsFs, {dT, dE, dTs})

\* consecutive scans of the same directory list; nobody modifies the files
SpecRoots == InitRoots /\ [][NextScan]_vars

\* scans of files that another program modifies meanwhile
InitLive ==
    InitWith({a \in ArgsChoices : a.action = "scan"},
             {FsOf(InitContent, more, {}, 0) : more \in {{}, {pEn}}}, {dT, dE})

NextLive ==
    \/ NextScan
    \/ \E p \in Touched : touch(p)

SpecLive == InitLive /\ [][NextLive]_vars

\* ------------------------------------------------------------ properties
\* the main thread waits: for room in the queue (queue.put) or for the threads
\* to end (thread.join)
MainBlocked ==
    \/ pc \in {"put", "stop_put"} /\ ~(Len(queue) < NThreads)
    \/ pc = "stop_join" /\ \E t \in Threads : Running(threads[t])
\* the thread has ended, or waits for an item (queue.get)
ThreadIdle(t) == ~Running(threads[t]) \/ (threads[t].pc = "get" /\ queue = <<>>)
\* main has not returned and neither it nor any thread can take a step
Stuck == MainBlocked /\ \A t \in Threads : ThreadIdle(t)
\* the program can take no step: it has ended or is stuck
Quiescent == (pc = "exit" \/ MainBlocked) /\ \A t \in Threads : ThreadIdle(t)

RemovalRun == args.action = "remove_dir" /\ args.remove

\* C1: when a removal run aborts because a copy's live checksum differs from
\* the cached one, the run has deleted no file.
C1_StaleCacheDeletesNothing == (RemovalRun /\ exc = "SystemExit") => unlinked = {}

\* C2: whenever a removal run unlinks a file of the directory, a file outside
\* the directory exists at that moment that holds the same bytes.
C2_NoDataLoss ==
    [][\A p \in Paths :
          (RemovalRun /\ fs[p].exists /\ ~fs'[p].exists)
          => \E q \in Paths : /\ dirname(q) # real_path(args.directory)
                              /\ fs[q].exists
                              /\ fs[q].content = fs[p].content]_vars

\* the first path outside the directory that the loaded cache gives this checksum
FirstOutside(d, directory, checksum) ==
    LET I == {i \in 1..Len(d) : dirname(d[i].path) # directory /\ d[i].checksum = checksum}
    IN  d[CHOOSE i \in I : \A j \in I : i <= j].path

\* C3: every file a removal run has unlinked was preceded, in that run and for
\* that entry, by a live hash of the first path outside the directory with the
\* entry's cached checksum, and the hash equalled the cached checksum.
C3_VerifyBeforeDelete ==
    \A p \in unlinked :
        /\ DictHas(loaded, p)
        /\ \E r \in rehashed :
              /\ r.target = p
              /\ r.copy = FirstOutside(loaded, real_path(args.directory),
                                       DictGet(loaded, p).checksum)
              /\ r.result = DictGet(loaded, p).checksum

\* C3 witness: a removal run has unlinked a file whose checksum two paths
\* outside the directory share
C3_Witness ==
    /\ RemovalRun
    /\ \E p \in unlinked :
          Cardinality({i \in 1..Len(loaded) :
              /\ dirname(loaded[i].path) # real_path(args.directory)
              /\ loaded[i].checksum = DictGet(loaded, p).checksum}) = 2

\* C4: when a run ends on StaleCacheError (sys.exit(1) of remove_dir) or on a
\* path with a newline (ValueError of scan_file), the threads are stopped, the
\* cache accumulated so far has been written and the status is not zero.
C4_FatalErrorPersistsCache ==
    (pc = "exit" /\ exc \in {"SystemExit", "ValueError"} /\ cache # <<>>)
    => /\ \A t \in Threads : ~Running(threads[t])
       /\ status # 0
       /\ written.done
       /\ written.cache = cache

\* C5: a thread ends only by getting the sentinel: a failure of hash_file
\* never ends it.
C5_WorkerSurvivesIOError == \A t \in Threads : threads[t].pc # "dead"

\* C6: a scan never comes to a stop before main has returned, whatever files
\* cannot be read: the main thread is never blocked on the queue or in join
\* with no hashing thread able to take a step (so that fair scheduling brings
\* every put, every job and stop_threads to their end).
C6_ScanNeverStuck == (args.action = "scan" /\ ~sigint) => ~Stuck

\* C7: the queue never holds more than NThreads items, no job is got more than
\* once, and when the program can take no further step every job that was put
\* has been got exactly once.
C7_BoundedExactlyOnce ==
    /\ Len(queue) <= NThreads
    /\ \A i \in 1..Len(submitted) : Took(i) <= 1
    /\ Quiescent => \A i \in 1..Len(submitted) : Took(i) = 1

\* C8: after CTRL+c, pressed at any point after the cache was loaded, the
\* process ends with every thread stopped and with the cache file holding every
\* entry recorded so far.
C8_InterruptPersistsCache ==
    (sigint /\ pc = "exit" /\ cache # <<>>)
    => /\ \A t \in Threads : ~Running(threads[t])
       /\ written.done
       /\ written.cache = cache

\* a scan that follows a scan of the same directories: the earlier one ran to
\* its end and wrote the cache, this one loaded it, and no file was modified
\* since the earlier one began
SecondScan ==
    /\ run >= 2
    /\ args.action = "scan"
    /\ prev.args = args
    /\ ~prev.sigint
    /\ prev.written.done
    /\ loaded # <<>>
    /\ ~prev.dirty
    /\ ~dirty

NoNewline(d) == \A i \in 1..Len(d) : \A k \in 1..Len(d[i].path) : d[i].path[k] # NL
Mapping(d) == {d[i] : i \in 1..Len(d)}

\* C10: a non-empty cache whose paths hold no newline, written by write_cache
\* and read by read_cache before the file is MAX_CACHE_AGE old, is loaded with
\* the same paths, each with the same modification time and checksum.
C10_RoundTrip ==
    (/\ run = 2
     /\ pc # "read_cache"
     /\ prev.written.done
     /\ NoNewline(prev.written.cache)
     /\ now - prev.written.ts < MAX_CACHE_AGE)
    => /\ pc = "start_threads"
       /\ Len(loaded) = Len(prev.written.cache)
       /\ Mapping(loaded) = Mapping(prev.written.cache)

\* C10 witness: a cache with a ':' in a path was written and loaded again
C10_Witness ==
    /\ run = 2
    /\ pc = "start_threads"
    /\ now - prev.written.ts < MAX_CACHE_AGE
    /\ \E i \in 1..Len(loaded) : \E k \in 1..Len(loaded[i].path) : loaded[i].path[k] = COLON

DryRun == args.action = "remove_dir" /\ ~args.remove

\* C11: a removal run without --remove unlinks no file, removes no directory
\* and leaves the in-memory cache as read_cache loaded it; when the process has
\* ended the cache file holds the entries that were loaded.
C11_DryRunChangesNothing ==
    [][DryRun =>
          /\ \A p \in Paths : fs[p].exists => fs'[p].exists
          /\ dirs' = dirs
          /\ pc # "read_cache" => cache' = cache
          /\ pc' # "read_cache" => cache' = loaded'
          /\ pc' = "exit" =>
                IF cachefile'.exists THEN FileEntries(cachefile'.bytes) = loaded'
                ELSE loaded' = <<>>]_vars

\* C11 witness: a run without --remove has found duplicates and has ended
\* after writing the cache
C11_Witness == DryRun /\ pc = "exit" /\ written.done /\ nremoved > 0

\* remove_dir has printed its count (lines 273-276)
Reported ==
    /\ args.action = "remove_dir"
    /\ pc \in {"stop_put", "stop_join", "write_cache", "exit"}
    /\ exc = "none"
    /\ ~sigint

\* C12: the count remove_dir prints is the number of files the run has
\* unlinked; a run without --remove prints zero.
C12_CountIsDeleted == Reported => nremoved = Cardinality(unlinked)

\* C13: when a removal run has ended, normally or by the abort of a later
\* entry, neither the in-memory cache nor the cache file has an entry for a
\* file the run has unlinked.
C13_NoStaleEntry ==
    (RemovalRun /\ pc = "exit" /\ exc \in {"none", "SystemExit"})
    => \A p \in unlinked :
          /\ ~DictHas(cache, p)
          /\ cachefile.exists => ~DictHas(FileEntries(cachefile.bytes), p)

\* C14: scan puts no job for a path that is not a regular file, and the cache
\* never has an entry for one.
C14_NonRegularSkipped ==
    /\ \A i \in 1..Len(submitted) : fs[submitted[i].path].regular
    /\ \A i \in 1..Len(cache) : fs[cache[i].path].regular

\* C15: within one scan no canonical path is put in the queue twice, whatever
\* the directory list and the interleaving with the threads.
C15_DistinctJobs ==
    \A i, j \in 1..Len(submitted) : i # j => submitted[i].path # submitted[j].path

\* the canonical paths scan visits, the cache file apart
Walked ==
    {real_path(Walk(args.directory)[i]) : i \in 1..Len(Walk(args.directory))}
    \ {cache_filename}
\* the files the scan has to hash: visited, not up to date in the loaded cache
ToHash == {p \in Walked : CanRead(p) /\ ~CacheHit(loaded, p, fs[p].mtime)}
\* the cache a scan of these files ends with, as a function of the files, the
\* directory list and the loaded cache only
ExpectedCache ==
    {[path |-> p, mtime |-> fs[p].mtime, checksum |-> md5(fs[p].content)] : p \in ToHash}
    \cup {e \in Mapping(loaded) : e.path \notin ToHash}

\* the callback of a job changes the entry of no other path
CallbackKeepsOthers ==
    \A t \in Threads :
        (threads[t].pc = "hash" /\ threads'[t].pc = "get")
        => \A q \in DictKeys(cache) \ {threads[t].job.path} :
              DictHas(cache', q) /\ DictGet(cache', q) = DictGet(cache, q)

\* C16: with the files and the directory list fixed, the cache after the scan
\* and stop_threads is the same mapping in whatever order the threads got the
\* jobs and called back: every path has one entry, write_cache writes that
\* mapping, and no callback changes or removes the entry of another path.
C16_SameCacheAnyOrder ==
    /\ []((args.action = "scan" /\ exc = "none" /\ pc \in {"write_cache", "exit"})
          => /\ Mapping(cache) = ExpectedCache
             /\ Len(cache) = Cardinality(ExpectedCache)
             /\ (pc = "exit" /\ cache # <<>>)
                => Mapping(FileEntries(cachefile.bytes)) = ExpectedCache)
    /\ [][CallbackKeepsOthers]_vars

\* C16 witness: a scan has ended whose second job called back before the first
C16_Witness ==
    /\ args.action = "scan"
    /\ pc = "exit"
    /\ status = 0
    /\ Len(submitted) >= 2
    /\ Len(cache) >= 2
    /\ cache[1].path = submitted[2].path

\* scan_file handles a regular file that is not the cache file
ScansRegular ==
    /\ pc = "scan_file"
    /\ todo # <<>>
    /\ <<pc, todo>>' # <<pc, todo>>
    /\ real_path(Head(todo)) \in Paths
    /\ fs[real_path(Head(todo))].regular
    /\ fs[real_path(Head(todo))].exists

\* it makes a job, with the mtime of its stat, exactly when the cache has no
\* entry for the path or an entry with a lesser mtime; a hit changes no entry
MakesJobIffOutdated ==
    LET path == real_path(Head(todo))
        outdated == \/ ~DictHas(cache, path)
                    \/ DictGet(cache, path).mtime < fs[path].mtime
    IN  IF outdated
        THEN /\ pc' = "put"
             /\ job'.path = path
             /\ job'.mtime = fs[path].mtime
        ELSE /\ pc' = "scan_file"
             /\ todo' = Tail(todo)
             /\ cache' = cache
             /\ submitted' = submitted

\* the job is put in the queue as it was made
PutsTheJob ==
    (pc = "put" /\ pc' = "scan_file")
    => /\ submitted' = Append(submitted, job)
       /\ queue' = Append(queue, job)

\* the callback of a job sets the entry of its path to the job's mtime and the
\* checksum computed
CallbackRecords ==
    \A t \in Threads :
        (threads[t].pc = "hash" /\ threads'[t].pc = "get")
        => LET j == threads[t].job
           IN  /\ DictHas(cache', j.path)
               /\ DictGet(cache', j.path).mtime = j.mtime
               /\ DictGet(cache', j.path).checksum = md5(fs[j.path].content)

\* C17 as claimed: the policy holds for every regular file scan_file handles,
\* the cache file apart.
C17_PolicyEveryFile ==
    [][/\ ScansRegular => MakesJobIffOutdated
       /\ PutsTheJob
       /\ CallbackRecords]_vars

\* C17 as amended: the policy holds for every regular file scan_file handles
\* whose path holds no newline, the cache file apart (on a path with a newline
\* scan_file raises ValueError before it looks at the cache).
C17_IncrementalPolicy ==
    [][/\ (ScansRegular /\ \A k \in 1..Len(Head(todo)) : Head(todo)[k] # NL)
          => MakesJobIffOutdated
       /\ PutsTheJob
       /\ CallbackRecords]_vars

\* C17 witness: a later scan has hashed again a file whose loaded entry was
\* older than the file, and its entry now has the file's mtime
C17_Witness ==
    /\ run >= 2
    /\ \E p \in hashed :
          /\ DictHas(loaded, p)
          /\ DictGet(loaded, p).mtime < DictGet(cache, p).mtime
          /\ DictGet(cache, p).mtime = fs[p].mtime

\* p is a file of the directory itself, not of a directory inside it
DirectChild(directory, p) ==
    /\ Len(p) > Len(directory) + 1
    /\ SubSeq(p, 1, Len(directory)) = directory
    /\ p[Len(directory) + 1] = "/"
    /\ \A k \in (Len(directory) + 2)..Len(p) : p[k] # "/"

\* C18: a file that a removal run unlinks is a file of the target directory
\* itself, with a loaded entry whose checksum is also that of a loaded entry
\* that is not a file of the target directory itself; no other file ceases to
\* exist.
C18_ScopeOfDeletion ==
    [][\A p \in Paths :
          (fs[p].exists /\ ~fs'[p].exists)
          => /\ RemovalRun
             /\ DirectChild(real_path(args.directory), p)
             /\ DictHas(loaded, p)
             /\ \E i \in 1..Len(loaded) :
                   /\ ~DirectChild(real_path(args.directory), loaded[i].path)
                   /\ loaded[i].checksum = DictGet(loaded, p).checksum]_vars

\* C18 witness: a removal run has ended that unlinked a file, left the file
\* of the inner directory with the same checksum, and left a file of the target
\* directory whose checksum only files of the target directory share
C18_Witness ==
    /\ RemovalRun
    /\ pc = "exit"
    /\ fs[pTs].exists
    /\ pTa \in unlinked
    /\ DictGet(loaded, pTs).checksum = DictGet(loaded, pTa).checksum
    /\ fs[pTb].exists
    /\ \A i \in 1..Len(loaded) :
          loaded[i].checksum = DictGet(loaded, pTb).checksum => loaded[i].path = pTb

\* stop_threads has returned
ShutdownReturned ==
    /\ nput = NThreads
    /\ pc \in {"write_cache", "exit"}
    /\ exc # "KeyboardInterrupt"

\* C19: stop_threads puts one sentinel for each thread, behind the jobs put
\* before; no more threads have ended on a sentinel than sentinels were put;
\* when stop_threads has returned no thread runs and the callback of every job
\* put has run; no thread runs while write_cache writes.
C19_ShutdownProtocol ==
    /\ nput <= NThreads
    /\ \A i, k \in 1..Len(queue) : (i < k /\ queue[i] = None) => queue[k] = None
    /\ Cardinality({t \in Threads : threads[t].pc = "exited"}) <= nput
    /\ ShutdownReturned
       => /\ \A t \in Threads : ~Running(threads[t])
          /\ \A i \in 1..Len(submitted) : submitted[i].path \in hashed
    /\ pc = "write_cache" => \A t \in Threads : ~Running(threads[t])

\* C20: as long as a file's mtime is not later than the mtime of its cache
\* entry, the entry's checksum is that of the bytes the file holds now (every
\* modification makes the mtime later).
C20_HitIsSound ==
    \A i \in 1..Len(cache) :
        (fs[cache[i].path].exists /\ fs[cache[i].path].mtime <= cache[i].mtime)
        => cache[i].checksum = md5(fs[cache[i].path].content)

\* C20 witness: a file was modified between scan_file's stat and the hashing:
\* its entry has the earlier mtime and the checksum of the new bytes
C20_Witness ==
    \E i \in 1..Len(cache) :
        /\ cache[i].path \in hashed
        /\ cache[i].mtime < fs[cache[i].path].mtime
        /\ cache[i].checksum = md5(fs[cache[i].path].content)

====
